---- MODULE Spec2Model ----
(***************************************************************************)
(* Flow-meter logger (record_data.py): serial acquisition thread, CSV     *)
(* store, live plot buffer, stop listener and the main session loop.      *)
(* Lines of text are sequences of one-character strings so that the       *)
(* regular expressions and the conversions of parse_block are computed,   *)
(* not assumed.                                                            *)
(***************************************************************************)
EXTENDS Integers, Sequences, FiniteSets, TLC

(***************************************************************************)
(* Bounds of the model                                                     *)
(***************************************************************************)
\* number of sessions main may start
MaxSessions == 2
\* number of frames the device delivers in one session before going silent
MaxFrames == 2
\* longest frame handed to parse_block when it is checked as a function
MaxFrameLen == 5

(***************************************************************************)
(* Text                                                                    *)
(***************************************************************************)
\* Python values are records tagged with their kind; a text is a sequence of
\* one-character strings, and the empty text stands for "no match"
None == [kind |-> "None"]
ValueError == [kind |-> "ValueError"]
NoMatch == <<>>

DigitChars == <<"0", "1", "2", "3", "4", "5", "6", "7", "8", "9">>

\* \d
Digits == {DigitChars[i] : i \in 1..Len(DigitChars)}

IsDigit(c) == c \in Digits

DigitVal(c) == (CHOOSE i \in 1..Len(DigitChars) : DigitChars[i] = c) - 1

\* [\d.]
NumChars == Digits \cup {"."}

IsNumCh(c) == c \in NumChars

\* \s
Spaces == {" ", "\t", "\r", "\n"}

IsSpace(c) == c \in Spaces

\* the literal lit occurs in line at position i
MatchAt(line, i, lit) ==
    /\ i >= 1
    /\ i + Len(lit) - 1 <= Len(line)
    /\ \A k \in 1..Len(lit) : line[i + k - 1] = lit[k]

\* end of the longest run of characters of a class that starts at j (j-1 when empty)
RECURSIVE RunEnd(_, _, _)
RunEnd(line, j, class) ==
    IF j <= Len(line) /\ line[j] \in class THEN RunEnd(line, j + 1, class)
    ELSE j - 1

\* int(text) / the digits of text read as a decimal number
RECURSIVE DigitsVal(_)
DigitsVal(text) ==
    IF text = <<>> THEN 0
    ELSE 10 * DigitsVal(SubSeq(text, 1, Len(text) - 1)) + DigitVal(text[Len(text)])

\* a float as num / 10^scale with no trailing zero in the fraction
RECURSIVE Normalize(_, _)
Normalize(num, scale) ==
    IF scale > 0 /\ num % 10 = 0 THEN Normalize(num \div 10, scale - 1)
    ELSE [kind |-> "float", num |-> num, scale |-> scale]

\* positions of the dots of a text
Dots(text) == {i \in 1..Len(text) : text[i] = "."}

\* float(text) for a text over digits and dots: ValueError unless it has at most
\* one dot and at least one digit
FloatOf(text) ==
    IF \/ Cardinality(Dots(text)) > 1
       \/ SelectSeq(text, IsDigit) = <<>>
       \/ \E i \in 1..Len(text) : ~IsNumCh(text[i])
    THEN ValueError
    ELSE Normalize(DigitsVal(SelectSeq(text, IsDigit)),
                   IF Dots(text) = {} THEN 0
                   ELSE Len(text) - (CHOOSE i \in Dots(text) : TRUE))

(***************************************************************************)
(* Regex patterns (record_data.py 22-25, 61)                               *)
(***************************************************************************)
\* the least element of a non-empty set of positions
First(hits) == CHOOSE i \in hits : \A k \in hits : i <= k

\* lit \s* (?P<g>[\d.]+) matched at position i: where the number starts and ends
NumStart(line, i, lit) == RunEnd(line, i + Len(lit), Spaces) + 1

NumEnd(line, i, lit) == RunEnd(line, NumStart(line, i, lit), NumChars)

\* the captured text, or NoMatch
LitNumAt(line, i, lit) ==
    IF ~MatchAt(line, i, lit) THEN NoMatch
    ELSE IF NumEnd(line, i, lit) < NumStart(line, i, lit) THEN NoMatch
    ELSE SubSeq(line, NumStart(line, i, lit), NumEnd(line, i, lit))

LitNumHits(line, lit) == {i \in 1..Len(line) : LitNumAt(line, i, lit) # NoMatch}

LitNumFirst(line, lit, hits) ==
    IF hits = {} THEN NoMatch ELSE LitNumAt(line, First(hits), lit)

\* pattern.search(line) for the patterns of that shape: leftmost match
LitNumSearch(line, lit) == LitNumFirst(line, lit, LitNumHits(line, lit))

FLOW_RE(line) == LitNumSearch(line, <<"F", "L", "O", "W", ":">>)

VEL_RE(line) == LitNumSearch(line, <<"V", "E", "L", ":">>)

FVEL_RE(line) == LitNumSearch(line, <<"F", "V", "E", "L", ":">>)

\* UP:(?P<up>[\d.]+),DN:(?P<dn>[\d.]+),Q=(?P<q>\d+) matched at position i: the
\* three captured texts, all empty when there is no match
NoUpDnQ == [up |-> NoMatch, dn |-> NoMatch, q |-> NoMatch]

UpEnd(line, i) == RunEnd(line, i + 3, NumChars)

DnEnd(line, i) == RunEnd(line, UpEnd(line, i) + 5, NumChars)

QEnd(line, i) == RunEnd(line, DnEnd(line, i) + 4, Digits)

UpDnQAt(line, i) ==
    IF ~MatchAt(line, i, <<"U", "P", ":">>) THEN NoUpDnQ
    ELSE IF UpEnd(line, i) < i + 3 THEN NoUpDnQ
    ELSE IF ~MatchAt(line, UpEnd(line, i) + 1, <<",", "D", "N", ":">>) THEN NoUpDnQ
    ELSE IF DnEnd(line, i) < UpEnd(line, i) + 5 THEN NoUpDnQ
    ELSE IF ~MatchAt(line, DnEnd(line, i) + 1, <<",", "Q", "=">>) THEN NoUpDnQ
    ELSE IF QEnd(line, i) < DnEnd(line, i) + 4 THEN NoUpDnQ
    ELSE [up |-> SubSeq(line, i + 3, UpEnd(line, i)),
          dn |-> SubSeq(line, UpEnd(line, i) + 5, DnEnd(line, i)),
          q  |-> SubSeq(line, DnEnd(line, i) + 4, QEnd(line, i))]

UpDnQHits(line) == {i \in 1..Len(line) : UpDnQAt(line, i) # NoUpDnQ}

UpDnQFirst(line, hits) == IF hits = {} THEN NoUpDnQ ELSE UpDnQAt(line, First(hits))

UP_DN_Q_RE(line) == UpDnQFirst(line, UpDnQHits(line))

\* re.match(r"\d{2}-\d{2}-\d{2}", line)
TimestampMatch(line) ==
    /\ Len(line) >= 8
    /\ \A k \in {1, 2, 4, 5, 7, 8} : IsDigit(line[k])
    /\ line[3] = "-"
    /\ line[6] = "-"

(***************************************************************************)
(* datetime.strptime(line, "%d-%m-%y %H:%M:%S") and strftime               *)
(***************************************************************************)
DaysIn(month, year) ==
    IF month \in {4, 6, 9, 11} THEN 30
    ELSE IF month = 2 THEN (IF year % 4 = 0 THEN 29 ELSE 28)
    ELSE 31

\* a field of one or two digits starting at j and followed by the text sep (by
\* the end of the line when sep is empty); next = 0 when the field does not match
NoField == [val |-> 0, next |-> 0]

TimeFieldTo(line, j, sep, e) ==
    IF e < j \/ e > j + 1 THEN NoField
    ELSE IF sep = <<>> /\ e # Len(line) THEN NoField
    ELSE IF sep # <<>> /\ ~MatchAt(line, e + 1, sep) THEN NoField
    ELSE [val |-> DigitsVal(SubSeq(line, j, e)), next |-> e + 1 + Len(sep)]

TimeField(line, j, sep) == TimeFieldTo(line, j, sep, RunEnd(line, j, Digits))

\* %d, %m, %y of a line TimestampMatch accepts
TsDay(line) == DigitsVal(SubSeq(line, 1, 2))

TsMonth(line) == DigitsVal(SubSeq(line, 4, 5))

Century(yy) == IF yy < 69 THEN 2000 + yy ELSE 1900 + yy

TsYear(line) == Century(DigitsVal(SubSeq(line, 7, 8)))

\* %H, %M, %S after the blanks that follow the date
TsHour(line) == TimeField(line, RunEnd(line, 9, Spaces) + 1, <<":">>)

NextField(line, prev, sep) ==
    IF prev = NoField THEN NoField ELSE TimeField(line, prev.next, sep)

TsMinute(line) == NextField(line, TsHour(line), <<":">>)

TsSecond(line) == NextField(line, TsMinute(line), <<>>)

\* the datetime of the fields, or ValueError when one is missing or out of range
MakeDatetime(year, month, day, blanks, h, m, s) ==
    IF \/ month < 1 \/ month > 12
       \/ day < 1 \/ day > DaysIn(month, year)
       \/ blanks < 9
       \/ s = NoField
       \/ h.val > 23 \/ m.val > 59 \/ s.val > 61
    THEN ValueError
    ELSE [kind |-> "datetime", year |-> year, month |-> month, day |-> day,
          hour |-> h.val, minute |-> m.val, second |-> s.val]

\* called only on lines TimestampMatch accepts
Strptime(line) ==
    MakeDatetime(TsYear(line), TsMonth(line), TsDay(line), RunEnd(line, 9, Spaces),
                 TsHour(line), TsMinute(line), TsSecond(line))

Pad2(n) == <<DigitChars[((n \div 10) % 10) + 1], DigitChars[(n % 10) + 1]>>

\* timestamp.strftime("%Y-%m-%d %H:%M:%S")
Strftime(t) ==
    Pad2(t.year \div 100) \o Pad2(t.year % 100) \o <<"-">> \o Pad2(t.month) \o <<"-">>
    \o Pad2(t.day) \o <<" ">> \o Pad2(t.hour) \o <<":">> \o Pad2(t.minute)
    \o <<":">> \o Pad2(t.second)

\* a Python str value
Str(text) == [kind |-> "str", text |-> text]

(***************************************************************************)
(* parse_block (record_data.py 57-94)                                      *)
(***************************************************************************)
NoFields ==
    [timestamp |-> None, up |-> None, down |-> None, q |-> None,
     flow |-> None, vel |-> None, fvel |-> None, raised |-> FALSE]

\* field = value, or the conversion raised
Store(acc, field, value) ==
    IF value = ValueError THEN [acc EXCEPT !.raised = TRUE]
    ELSE [acc EXCEPT ![field] = value]

\* field = float(text) when the pattern matched
SetFloat(acc, field, text) ==
    IF acc.raised \/ text = NoMatch THEN acc ELSE Store(acc, field, FloatOf(text))

\* lines 61-62
ScanTimestamp(acc, line) ==
    IF acc.raised \/ ~TimestampMatch(line) THEN acc
    ELSE Store(acc, "timestamp", Strptime(line))

\* line 67
SetQ(acc, text) ==
    IF acc.raised THEN acc
    ELSE [acc EXCEPT !.q = [kind |-> "int", val |-> DigitsVal(text)]]

\* lines 65-67
SetUpDnQ(acc, m) ==
    IF acc.raised \/ m = NoUpDnQ THEN acc
    ELSE SetQ(SetFloat(SetFloat(acc, "up", m.up), "down", m.dn), m.q)

\* lines 64-67
ScanUpDnQ(acc, line) == SetUpDnQ(acc, UP_DN_Q_RE(line))

\* lines 69-70
ScanFlow(acc, line) == SetFloat(acc, "flow", FLOW_RE(line))

\* lines 72-73
ScanVel(acc, line) == SetFloat(acc, "vel", VEL_RE(line))

\* lines 75-76
ScanFvel(acc, line) == SetFloat(acc, "fvel", FVEL_RE(line))

\* the body of "for line in lines" for one line (lines 61-76)
ScanLine(acc, line) ==
    ScanFvel(ScanVel(ScanFlow(ScanUpDnQ(ScanTimestamp(acc, line), line), line), line), line)

\* the loop run over the lines from the last to the first
RECURSIVE ScanLinesBackwards(_, _)
ScanLinesBackwards(acc, lines) ==
    IF lines = <<>> THEN acc
    ELSE ScanLine(ScanLinesBackwards(acc, Tail(lines)), Head(lines))

RECURSIVE ScanLines(_, _)
ScanLines(acc, lines) ==
    IF lines = <<>> THEN acc
    ELSE ScanLines(ScanLine(acc, Head(lines)), Tail(lines))

\* the returned row with the flow written in the target_flow column
RecordFlowAsTarget(f, target_flow) ==
    [kind |-> "tuple", timestamp |-> f.timestamp,
     csv_row |-> <<Str(Strftime(f.timestamp)), f.flow, f.up, f.down,
                   f.q, f.flow, f.vel, f.fvel>>,
     flow |-> f.flow]

\* lines 81-94
Record(f, target_flow) ==
    [kind |-> "tuple", timestamp |-> f.timestamp,
     csv_row |-> <<Str(Strftime(f.timestamp)), target_flow, f.up, f.down,
                   f.q, f.flow, f.vel, f.fvel>>,
     flow |-> f.flow]

\* line 78
Incomplete(f) == None \in {f.timestamp, f.up, f.down, f.q, f.flow, f.vel, f.fvel}

\* lines 78-94: None when a field is unset, else (timestamp, csv_row, flow); a
\* conversion that raised leaves parse_block as ValueError
Result(f, target_flow) ==
    IF f.raised THEN ValueError
    ELSE IF Incomplete(f) THEN None
    ELSE Record(f, target_flow)

parse_block(lines, target_flow) == Result(ScanLines(NoFields, lines), target_flow)

(***************************************************************************)
(* Lines the device sends                                                  *)
(***************************************************************************)
\* "01-01-24 12:00:00"
L_TS == <<"0", "1", "-", "0", "1", "-", "2", "4", " ", "1", "2", ":", "0", "0", ":", "0", "0">>
\* "01-01-24 11:59:59"
L_TS2 == <<"0", "1", "-", "0", "1", "-", "2", "4", " ", "1", "1", ":", "5", "9", ":", "5", "9">>
\* "31-02-24 12:00:00"
L_TSBAD == <<"3", "1", "-", "0", "2", "-", "2", "4", " ", "1", "2", ":", "0", "0", ":", "0", "0">>
\* "UP:10.2,DN:9.8,Q=3"
L_UDQ == <<"U", "P", ":", "1", "0", ".", "2", ",", "D", "N", ":", "9", ".", "8", ",", "Q", "=", "3">>
\* "UP:1.5,DN:2,Q=7"
L_UDQ2 == <<"U", "P", ":", "1", ".", "5", ",", "D", "N", ":", "2", ",", "Q", "=", "7">>
\* "UP:1.5,DN:1.2.3,Q=7"
L_UDQBAD ==
    <<"U", "P", ":", "1", ".", "5", ",", "D", "N", ":", "1", ".", "2", ".", "3", ",", "Q", "=", "7">>
\* "FLOW: 1.523"
L_FLOW == <<"F", "L", "O", "W", ":", " ", "1", ".", "5", "2", "3">>
\* "FLOW: 1.6"
L_FLOW2 == <<"F", "L", "O", "W", ":", " ", "1", ".", "6">>
\* "FLOW: 1.2.3"
L_FLOWBAD == <<"F", "L", "O", "W", ":", " ", "1", ".", "2", ".", "3">>
\* "VEL: 0.44"
L_VEL == <<"V", "E", "L", ":", " ", "0", ".", "4", "4">>
\* "FVEL: 0.41"
L_FVEL == <<"F", "V", "E", "L", ":", " ", "0", ".", "4", "1">>
\* "#FVEL: 0.39"
L_NOISE == <<"#", "F", "V", "E", "L", ":", " ", "0", ".", "3", "9">>

\* the raw bytes of a line as the device sends it
Raw(line) == line \o <<"\r", "\n">>

\* the frames the device may send, each a sequence of raw lines
DeviceFrames ==
    { <<Raw(L_TS), Raw(L_UDQ), Raw(L_FLOW), Raw(L_VEL), Raw(L_FVEL)>>,
      <<Raw(L_TS2), Raw(L_UDQ), Raw(L_FLOW2), Raw(L_VEL), Raw(L_FVEL)>>,
      <<Raw(L_TS), Raw(L_UDQ), Raw(L_FLOW), Raw(L_FVEL)>>,
      <<Raw(L_TS), Raw(L_UDQ), Raw(L_FVEL)>>,
      <<Raw(L_FLOWBAD), Raw(L_FVEL)>>,
      <<Raw(L_TSBAD), Raw(L_FVEL)>>,
      <<Raw(L_NOISE), Raw(L_FVEL)>> }

\* what the operator may type at the target prompt
TargetInputs == { <<"1", ".", "5">>, <<"2">>, <<"a", "b", "c">> }

\* what the operator may type at the other prompts (stripped and lowered)
OperatorWords == { <<"s", "t", "o", "p">>, <<"y">>, <<"n">> }

(***************************************************************************)
(* csv.writer: one text line per row                                       *)
(***************************************************************************)
HeaderCells ==
    <<Str(<<"t", "i", "m", "e", "s", "t", "a", "m", "p">>),
      Str(<<"t", "a", "r", "g", "e", "t", "_", "f", "l", "o", "w">>),
      Str(<<"u", "p">>),
      Str(<<"d", "o", "w", "n">>),
      Str(<<"q">>),
      Str(<<"f", "l", "o", "w", "_", "l", "s">>),
      Str(<<"v", "e", "l", "o", "c", "i", "t", "y", "_", "m", "s">>),
      Str(<<"f", "v", "e", "l", "_", "m", "s">>)>>

\* str(n) of a non-negative int
RECURSIVE IntText(_)
IntText(n) ==
    IF n < 10 THEN <<DigitChars[n + 1]>>
    ELSE IntText(n \div 10) \o <<DigitChars[(n % 10) + 1]>>

\* the last width digits of n
RECURSIVE FracText(_, _)
FracText(n, width) ==
    IF width = 0 THEN <<>>
    ELSE FracText(n \div 10, width - 1) \o <<DigitChars[(n % 10) + 1]>>

RECURSIVE Pow10(_)
Pow10(n) == IF n = 0 THEN 1 ELSE 10 * Pow10(n - 1)

\* repr(x) of a float in the plain decimal range
FloatText(x) ==
    IF x.scale = 0 THEN IntText(x.num) \o <<".", "0">>
    ELSE IntText(x.num \div Pow10(x.scale)) \o <<".">> \o FracText(x.num, x.scale)

\* the text csv.writer writes for one cell
CellText(v) ==
    IF v.kind = "str" THEN v.text
    ELSE IF v.kind = "float" THEN FloatText(v)
    ELSE IntText(v.val)

RECURSIVE JoinCells(_)
JoinCells(cells) ==
    IF Len(cells) = 1 THEN cells[1]
    ELSE cells[1] \o <<",">> \o JoinCells(Tail(cells))

\* the line writerow(row) hands to the file
CsvLine(row) == JoinCells([k \in 1..Len(row) |-> CellText(row[k])]) \o <<"\r", "\n">>

Header == CsvLine(HeaderCells)

(***************************************************************************)
(* State                                                                   *)
(***************************************************************************)
VARIABLES
    mpc,            \* main: where it is in its loop (184-214)
    started,        \* main: sessions started so far
    target,         \* main: the target flow of the current session
    join_result,    \* main: what reader.join() gave back
    stop_logging,   \* the threading.Event (30)
    stopper,        \* wait_for_stop threads alive: how many wait in input() (174) and
                    \* how many are about to call set() (175), having read "stop"
                    \* since the session started (set) or before line 191 (stale)
    pc,             \* log_data: where the acquisition thread is
    buffer,         \* log_data: the frame buffer
    parsed,         \* log_data: the value parse_block returned
    raised,         \* log_data: the exception that is propagating, or None
    opened,         \* handles log_data opened, in order
    closed,         \* handles log_data closed, in order
    extracted,      \* records parse_block returned in this session, in order
    base,           \* lines in the store when this session opened it
    uncleared,      \* frames of this session handed to parse_block (113) after which
                    \* buffer.clear() (114) did not run
    script,         \* device: raw lines of the current frame still to send
    frames_sent,    \* device: frames begun so far
    file_exists,    \* flow_log.csv exists
    file_rows,      \* flow_log.csv: the lines the operating system holds
    py_buffer,      \* csv_file: lines written but not yet flushed
    synced,         \* flow_log.csv: how many of file_rows are on stable storage
    crashed,        \* the machine went down
    appended,       \* lines of this session whose writerow and flush both returned
    flow_values,    \* live buffer (192)
    time_values,    \* live buffer (193)
    upc,            \* update: where the plot callback is
    x,              \* update: the time data handed to the plot
    y               \* update: the flow data handed to the plot

mainVars == <<mpc, started, target, join_result>>
readerVars == <<pc, buffer, parsed, raised, opened, closed, extracted, base, uncleared>>
deviceVars == <<script, frames_sent>>
fileVars == <<file_exists, file_rows, py_buffer>>
crashVars == <<synced, crashed, appended>>
liveVars == <<flow_values, time_values>>
plotVars == <<upc, x, y>>
vars == <<mainVars, stop_logging, stopper, readerVars, deviceVars, fileVars,
          crashVars, liveVars, plotVars>>

NotJoined == [kind |-> "not joined"]

Init ==
    /\ mpc = "input_target"
    /\ started = 0
    /\ target = None
    /\ join_result = NotJoined
    /\ stop_logging = FALSE
    /\ stopper = [input |-> 0, set |-> 0, stale |-> 0]
    /\ pc = "not_started"
    /\ buffer = <<>>
    /\ parsed = None
    /\ raised = None
    /\ opened = <<>>
    /\ closed = <<>>
    /\ extracted = <<>>
    /\ base = 0
    /\ uncleared = 0
    /\ script = <<>>
    /\ frames_sent = 0
    /\ file_exists = FALSE
    /\ file_rows = <<>>
    /\ py_buffer = <<>>
    /\ synced = 0
    /\ crashed = FALSE
    /\ appended = <<>>
    /\ flow_values = <<>>
    /\ time_values = <<>>
    /\ upc = "idle"
    /\ x = <<>>
    /\ y = <<>>

Count(seq, h) == Cardinality({i \in 1..Len(seq) : seq[i] = h})

SerOpen == Count(opened, "ser") > Count(closed, "ser")

CsvOpen == Count(opened, "csv") > Count(closed, "csv")

(***************************************************************************)
(* log_data (record_data.py 99-126): the acquisition thread                *)
(***************************************************************************)
\* bytes.decode(errors="ignore").strip(): blanks off both ends
RECURSIVE rstrip(_)
rstrip(text) ==
    IF text # <<>> /\ IsSpace(text[Len(text)]) THEN rstrip(SubSeq(text, 1, Len(text) - 1))
    ELSE text

RECURSIVE lstrip(_)
lstrip(text) ==
    IF text # <<>> /\ IsSpace(Head(text)) THEN lstrip(Tail(text))
    ELSE text

Strip(raw) == lstrip(rstrip(raw))

\* line.startswith("FVEL")
IsBoundary(line) == MatchAt(line, 1, <<"F", "V", "E", "L">>)

\* the finally clause with its two statements in the other order
FinallyClosesSwapped == <<"csv", "ser">>

\* the handles the finally clause closes, in order (125, 126)
FinallyCloses == <<"ser", "csv">>

\* lines 124-126 and the end of the thread, e being the exception that left the try
\* block (None when the loop ended). ser.close(): what the device sends to a closed
\* port is lost. csv_file.close() flushes what is buffered and releases the handle;
\* when that flush fails the handle is released all the same, the lines are lost
\* and the error replaces e. The locals go with the function
Finally(e) ==
    /\ closed' = closed \o FinallyCloses
    /\ script' = <<>>
    /\ py_buffer' = <<>>
    /\ \/ /\ file_rows' = file_rows \o py_buffer
          /\ raised' = e
       \/ /\ py_buffer # <<>>
          /\ file_rows' = file_rows
          /\ raised' = [kind |-> "OSError"]
    /\ buffer' = <<>>
    /\ parsed' = None
    /\ pc' = "done"

\* line 100: serial.Serial(...) returns a port, or raises before the try block
LogOpenSerial ==
    /\ pc = "open_serial"
    /\ \/ /\ opened' = Append(opened, "ser")
          /\ pc' = "init_csv"
          /\ UNCHANGED raised
       \/ /\ raised' = [kind |-> "SerialException"]
          /\ pc' = "done"
          /\ UNCHANGED opened
    /\ UNCHANGED <<buffer, parsed, closed, extracted, base, uncleared>>
    /\ UNCHANGED <<mainVars, stop_logging, stopper, deviceVars, fileVars,
                   crashVars, liveVars, plotVars>>

\* lines 101-102 and init_csv (35-52): open in append mode, header when the file
\* did not exist; open() may raise, before the try block: no statement closes ser
\* on that path, and whether the interpreter finalises the abandoned port object
\* is up to its garbage collector
InitCsv ==
    /\ pc = "init_csv"
    /\ \/ /\ opened' = Append(opened, "csv")
          /\ file_exists' = TRUE
          /\ py_buffer' = IF file_exists THEN <<>> ELSE <<Header>>
          /\ base' = Len(file_rows) + (IF file_exists THEN 0 ELSE 1)
          /\ pc' = "loop"
          /\ UNCHANGED raised
          /\ UNCHANGED closed
       \/ /\ raised' = [kind |-> "OSError"]
          /\ pc' = "done"
          /\ closed' \in {closed, Append(closed, "ser")}
          /\ UNCHANGED <<opened, file_exists, py_buffer, base>>
    /\ buffer' = <<>>
    /\ UNCHANGED <<parsed, extracted, file_rows, uncleared>>
    /\ UNCHANGED <<mainVars, stop_logging, stopper, deviceVars,
                   crashVars, liveVars, plotVars>>

\* line 105: while not stop_logging.is_set()
LogLoop ==
    /\ pc = "loop"
    /\ IF stop_logging THEN
           Finally(None)
       ELSE
           /\ pc' = "readline"
           /\ UNCHANGED <<buffer, parsed, raised, closed, script, file_rows, py_buffer>>
    /\ UNCHANGED <<opened, extracted, base, uncleared, frames_sent, file_exists>>
    /\ UNCHANGED <<mainVars, stop_logging, stopper, crashVars, liveVars, plotVars>>

\* datetime.__lt__: the day first, then the time of day
DayNumber(t) == (t.year * 12 + t.month) * 31 + t.day

SecondOfDay(t) == (t.hour * 60 + t.minute) * 60 + t.second

Earlier(a, b) ==
    \/ DayNumber(a) < DayNumber(b)
    \/ DayNumber(a) = DayNumber(b) /\ SecondOfDay(a) < SecondOfDay(b)

\* lines 113-116 with a check the code does not make: a record whose timestamp is
\* earlier than that of the previous record of the session is dropped
LogFrameMonotonic(result, rest) ==
    IF result = ValueError THEN
        /\ Finally(ValueError)
        /\ uncleared' = uncleared + 1
        /\ UNCHANGED extracted
    ELSE IF /\ result # None
            /\ extracted # <<>>
            /\ Earlier(result.timestamp, extracted[Len(extracted)].timestamp) THEN
        /\ buffer' = <<>>
        /\ parsed' = None
        /\ pc' = "loop"
        /\ script' = rest
        /\ UNCHANGED <<extracted, raised, closed, file_rows, py_buffer, uncleared>>
    ELSE
        /\ buffer' = <<>>
        /\ parsed' = result
        /\ pc' = IF result = None THEN "loop" ELSE "writerow"
        /\ extracted' = IF result = None THEN extracted ELSE Append(extracted, result)
        /\ script' = rest
        /\ UNCHANGED <<raised, closed, file_rows, py_buffer, uncleared>>

\* lines 113-116: the frame is complete; after it the device sends `rest`
LogFrame(result, rest) ==
    IF result = ValueError THEN
        /\ Finally(ValueError)
        /\ uncleared' = uncleared + 1
        /\ UNCHANGED extracted
    ELSE
        /\ buffer' = <<>>
        /\ parsed' = result
        /\ pc' = IF result = None THEN "loop" ELSE "writerow"
        /\ extracted' = IF result = None THEN extracted ELSE Append(extracted, result)
        /\ script' = rest
        /\ UNCHANGED <<raised, closed, file_rows, py_buffer, uncleared>>

\* lines 107-116 for the line just read
LogLine(line, rest) ==
    IF line = <<>> THEN
        /\ pc' = "loop"
        /\ script' = rest
        /\ UNCHANGED <<buffer, parsed, raised, extracted, uncleared, closed, file_rows, py_buffer>>
    ELSE IF ~IsBoundary(line) THEN
        /\ buffer' = Append(buffer, line)
        /\ pc' = "loop"
        /\ script' = rest
        /\ UNCHANGED <<parsed, raised, extracted, uncleared, closed, file_rows, py_buffer>>
    ELSE LogFrame(parse_block(Append(buffer, line), target), rest)

\* line 106: ser.readline() times out, returns the device's next line, or raises
LogReadline ==
    /\ pc = "readline"
    /\ \/ /\ LogLine(Strip(<<>>), script)
          /\ UNCHANGED frames_sent
       \/ /\ script # <<>>
          /\ LogLine(Strip(Head(script)), Tail(script))
          /\ UNCHANGED frames_sent
       \/ /\ script = <<>>
          /\ frames_sent < MaxFrames
          /\ \E f \in DeviceFrames : LogLine(Strip(Head(f)), Tail(f))
          /\ frames_sent' = frames_sent + 1
       \/ /\ Finally([kind |-> "SerialException"])
          /\ UNCHANGED <<extracted, uncleared, frames_sent>>
    /\ UNCHANGED <<opened, base, file_exists>>
    /\ UNCHANGED <<mainVars, stop_logging, stopper, crashVars, liveVars, plotVars>>

\* line 118: csv_writer.writerow(csv_row)
LogWriterow ==
    /\ pc = "writerow"
    /\ \/ /\ py_buffer' = Append(py_buffer, CsvLine(parsed.csv_row))
          /\ pc' = "flush"
          /\ UNCHANGED <<buffer, parsed, raised, closed, script, file_rows>>
       \/ Finally([kind |-> "OSError"])
    /\ UNCHANGED <<opened, extracted, base, uncleared, frames_sent, file_exists>>
    /\ UNCHANGED <<mainVars, stop_logging, stopper, crashVars, liveVars, plotVars>>

\* line 119: csv_file.flush() hands the buffered lines to the operating system
LogFlush ==
    /\ pc = "flush"
    /\ \/ /\ file_rows' = file_rows \o py_buffer
          /\ py_buffer' = <<>>
          /\ appended' = Append(appended, CsvLine(parsed.csv_row))
          /\ pc' = "push_flow"
          /\ UNCHANGED <<buffer, parsed, raised, closed, script>>
       \/ /\ Finally([kind |-> "OSError"])
          /\ UNCHANGED appended
    /\ UNCHANGED <<opened, extracted, base, uncleared, frames_sent, file_exists>>
    /\ UNCHANGED <<mainVars, stop_logging, stopper, synced, crashed, liveVars, plotVars>>

\* list.insert(0, item)
insert_front(list, item) == <<item>> \o list

\* list.append(item) (121, 122)
append(list, item) == Append(list, item)

\* line 121: flow_values.append(flow)
LogPushFlow ==
    /\ pc = "push_flow"
    /\ flow_values' = append(flow_values, parsed.flow)
    /\ pc' = "push_time"
    /\ UNCHANGED <<buffer, parsed, raised, opened, closed, extracted, base, uncleared>>
    /\ UNCHANGED <<mainVars, stop_logging, stopper, deviceVars, fileVars,
                   crashVars, time_values, plotVars>>

\* line 122: time_values.append(timestamp)
LogPushTime ==
    /\ pc = "push_time"
    /\ time_values' = append(time_values, parsed.timestamp)
    /\ pc' = "loop"
    /\ UNCHANGED <<buffer, parsed, raised, opened, closed, extracted, base, uncleared>>
    /\ UNCHANGED <<mainVars, stop_logging, stopper, deviceVars, fileVars,
                   crashVars, flow_values, plotVars>>

Reader ==
    \/ LogOpenSerial
    \/ InitCsv
    \/ LogLoop
    \/ LogReadline
    \/ LogWriterow
    \/ LogFlush
    \/ LogPushFlow
    \/ LogPushTime

(***************************************************************************)
(* wait_for_stop (172-176)                                                 *)
(***************************************************************************)
\* line 174: input() returns a word to one of the listeners; "stop" takes it out
\* of the loop towards line 175
StopperInput ==
    /\ stopper.input > 0
    /\ \E word \in OperatorWords :
          stopper' = IF word = <<"s", "t", "o", "p">>
                     THEN [stopper EXCEPT !.input = stopper.input - 1,
                                          !.set = stopper.set + 1]
                     ELSE stopper
    /\ UNCHANGED <<mainVars, stop_logging, readerVars, deviceVars, fileVars,
                   crashVars, liveVars, plotVars>>

\* lines 175-176: stop_logging.set(), and the listener ends; the listener is one
\* that read "stop" in this session or one that read it before line 191
StopperSet ==
    /\ stop_logging' = TRUE
    /\ \/ /\ stopper.set > 0
          /\ stopper' = [stopper EXCEPT !.set = stopper.set - 1]
       \/ /\ stopper.stale > 0
          /\ stopper' = [stopper EXCEPT !.stale = stopper.stale - 1]
    /\ UNCHANGED <<mainVars, readerVars, deviceVars, fileVars,
                   crashVars, liveVars, plotVars>>

Stopper == StopperInput \/ StopperSet

(***************************************************************************)
(* main (181-216)                                                          *)
(***************************************************************************)
\* lines 186-207: read the target; start the reader and the stop listener; live_plot
\* draws an empty line (145) and shows the window
MainStart ==
    /\ mpc = "input_target"
    /\ started < MaxSessions
    /\ \E text \in TargetInputs :
          IF FloatOf(text) = ValueError THEN
              UNCHANGED vars
          ELSE
              /\ target' = FloatOf(text)
              /\ stop_logging' = FALSE
              /\ flow_values' = <<>>
              /\ time_values' = <<>>
              /\ pc' = "open_serial"
              /\ buffer' = <<>>
              /\ parsed' = None
              /\ raised' = None
              /\ opened' = <<>>
              /\ closed' = <<>>
              /\ extracted' = <<>>
              /\ base' = 0
              /\ uncleared' = 0
              /\ appended' = <<>>
              /\ stopper' = [input |-> stopper.input + 1, set |-> 0,
                              stale |-> stopper.stale + stopper.set]
              /\ started' = started + 1
              /\ mpc' = "plot"
              /\ upc' = "idle"
              /\ x' = <<>>
              /\ y' = <<>>
              /\ UNCHANGED <<join_result, deviceVars, fileVars, synced, crashed>>

\* lines 207-209: the plot window is closed; stop_logging.set()
MainClosePlot ==
    /\ mpc = "plot"
    /\ upc = "idle"
    /\ stop_logging' = TRUE
    /\ mpc' = "join"
    /\ UNCHANGED <<started, target, join_result>>
    /\ UNCHANGED <<stopper, readerVars, deviceVars, fileVars,
                   crashVars, liveVars, plotVars>>

\* a join that returns without waiting for the thread to end (a join with a timeout)
MainJoinNoWait ==
    /\ mpc = "join"
    /\ join_result' = None
    /\ mpc' = "choice"
    /\ UNCHANGED <<started, target>>
    /\ UNCHANGED <<stop_logging, stopper, readerVars, deviceVars, fileVars,
                   crashVars, liveVars, plotVars>>

\* line 210: reader.join() returns once the thread has ended; it returns None
MainJoin ==
    /\ mpc = "join"
    /\ pc = "done"
    /\ join_result' = None
    /\ mpc' = "choice"
    /\ UNCHANGED <<started, target>>
    /\ UNCHANGED <<stop_logging, stopper, readerVars, deviceVars, fileVars,
                   crashVars, liveVars, plotVars>>

\* lines 212-216: another session, or leave; the daemon threads end with the program
MainChoice ==
    /\ mpc = "choice"
    /\ \E word \in OperatorWords :
          IF word = <<"y">> THEN
              /\ mpc' = "input_target"
              /\ UNCHANGED stopper
          ELSE
              /\ mpc' = "exited"
              /\ stopper' = [input |-> 0, set |-> 0, stale |-> 0]
    /\ join_result' = NotJoined
    /\ UNCHANGED <<started, target>>
    /\ UNCHANGED <<stop_logging, readerVars, deviceVars, fileVars,
                   crashVars, liveVars, plotVars>>

Main == MainStart \/ MainClosePlot \/ MainJoin \/ MainChoice

Next == Main \/ Reader \/ Stopper

Spec == Init /\ [][Next]_vars

\* every read returns and the acquisition thread is scheduled
SpecFair == Spec /\ WF_vars(Reader)

(***************************************************************************)
(* live_plot.update (150-162): the animation callback, run by the main     *)
(* thread every 500 ms while plt.show() blocks                             *)
(***************************************************************************)
\* lines 151-152: nothing to draw yet
UpdateCheck ==
    /\ mpc = "plot"
    /\ upc = "idle"
    /\ upc' = IF time_values = <<>> THEN "idle" ELSE "set_x"
    /\ UNCHANGED <<x, y>>
    /\ UNCHANGED <<mainVars, stop_logging, stopper, readerVars, deviceVars, fileVars,
                   crashVars, liveVars>>

\* lines 154, 157: set_data takes the x data from time_values as it is now
UpdateSetX ==
    /\ upc = "set_x"
    /\ x' = time_values
    /\ upc' = "set_y"
    /\ UNCHANGED y
    /\ UNCHANGED <<mainVars, stop_logging, stopper, readerVars, deviceVars, fileVars,
                   crashVars, liveVars>>

\* lines 155, 157: and then the y data from flow_values as it is now
UpdateSetY ==
    /\ upc = "set_y"
    /\ y' = flow_values
    /\ upc' = "idle"
    /\ UNCHANGED x
    /\ UNCHANGED <<mainVars, stop_logging, stopper, readerVars, deviceVars, fileVars,
                   crashVars, liveVars>>

Update == UpdateCheck \/ UpdateSetX \/ UpdateSetY

SpecLive == Init /\ [][Next \/ Update]_vars

(***************************************************************************)
(* The machine under the program: the page cache and a loss of power       *)
(***************************************************************************)
\* the operating system writes some more of the file to stable storage
Writeback ==
    /\ ~crashed
    /\ \E n \in (synced + 1)..Len(file_rows) : synced' = n
    /\ UNCHANGED <<crashed, appended>>
    /\ UNCHANGED <<mainVars, stop_logging, stopper, readerVars, deviceVars, fileVars,
                   liveVars, plotVars>>

\* the machine goes down: every thread ends, and the file keeps what was on
\* stable storage; flush() (119) is not followed by os.fsync()
Crash ==
    /\ ~crashed
    /\ crashed' = TRUE
    /\ file_rows' = SubSeq(file_rows, 1, synced)
    /\ py_buffer' = <<>>
    /\ mpc' = "down"
    /\ pc' = "down"
    /\ upc' = "down"
    /\ stopper' = [input |-> 0, set |-> 0, stale |-> 0]
    /\ UNCHANGED <<started, target, join_result, stop_logging>>
    /\ UNCHANGED <<buffer, parsed, raised, opened, closed, extracted, base, uncleared>>
    /\ UNCHANGED <<deviceVars, file_exists, synced, appended, liveVars, x, y>>

SpecCrash == Init /\ [][Next \/ Writeback \/ Crash]_vars

(***************************************************************************)
(* parse_block as a function: every frame of up to MaxFrameLen lines       *)
(***************************************************************************)
ParseLines == {L_TS, L_TS2, L_UDQ, L_UDQ2, L_UDQBAD, L_FLOW, L_FLOW2, L_VEL, L_FVEL}

\* the lines of a frame
LinesOf(frame) == {frame[i] : i \in 1..Len(frame)}

\* the frames of at most n lines of ParseLines, no line twice in a frame
RECURSIVE FramesOf(_)
FramesOf(n) ==
    IF n = 0 THEN {<<>>}
    ELSE FramesOf(n - 1)
         \cup UNION {{Append(f, l) : l \in ParseLines \ LinesOf(f)} :
                       f \in {g \in FramesOf(n - 1) : Len(g) = n - 1}}

InitParse ==
    /\ mpc = "plot"
    /\ started = 1
    /\ target \in {FloatOf(<<"1", ".", "5">>)}
    /\ join_result = NotJoined
    /\ stop_logging = FALSE
    /\ stopper = [input |-> 1, set |-> 0, stale |-> 0]
    /\ pc = "parse"
    /\ buffer \in FramesOf(MaxFrameLen)
    /\ parsed = None
    /\ raised = None
    /\ opened = <<"ser", "csv">>
    /\ closed = <<>>
    /\ extracted = <<>>
    /\ base = 1
    /\ uncleared = 0
    /\ script = <<>>
    /\ frames_sent = 0
    /\ file_exists = TRUE
    /\ file_rows = <<>>
    /\ py_buffer = <<Header>>
    /\ synced = 0
    /\ crashed = FALSE
    /\ appended = <<>>
    /\ flow_values = <<>>
    /\ time_values = <<>>
    /\ upc = "idle"
    /\ x = <<>>
    /\ y = <<>>

\* line 113: parsed = parse_block(buffer, target_flow)
ParseApply ==
    /\ pc = "parse"
    /\ parsed' = parse_block(buffer, target)
    /\ pc' = "parsed"
    /\ UNCHANGED <<buffer, raised, opened, closed, extracted, base, uncleared>>
    /\ UNCHANGED <<mainVars, stop_logging, stopper, deviceVars, fileVars,
                   crashVars, liveVars, plotVars>>

SpecParse == InitParse /\ [][ParseApply]_vars

(***************************************************************************)
(* Properties                                                              *)
(***************************************************************************)
\* the acquisition loop of the current session is running (105-122)
Running == pc \in {"loop", "readline", "writerow", "flush", "push_flow", "push_time"}

\* the kinds of line of the protocol, by how the line begins
IsTimestampLine(line) == TimestampMatch(line)

IsUpDnQLine(line) == MatchAt(line, 1, <<"U", "P", ":">>)

IsFlowLine(line) == MatchAt(line, 1, <<"F", "L", "O", "W", ":">>)

IsVelLine(line) == MatchAt(line, 1, <<"V", "E", "L", ":">>)

IsFvelLine(line) == MatchAt(line, 1, <<"F", "V", "E", "L", ":">>)

HasAllKinds(frame) ==
    /\ \E i \in 1..Len(frame) : IsTimestampLine(frame[i])
    /\ \E i \in 1..Len(frame) : IsUpDnQLine(frame[i])
    /\ \E i \in 1..Len(frame) : IsFlowLine(frame[i])
    /\ \E i \in 1..Len(frame) : IsVelLine(frame[i])
    /\ \E i \in 1..Len(frame) : IsFvelLine(frame[i])

\* one line of each kind in the protocol order
ProtocolOrder(frame) ==
    /\ Len(frame) = 5
    /\ IsTimestampLine(frame[1])
    /\ IsUpDnQLine(frame[2])
    /\ IsFlowLine(frame[3])
    /\ IsVelLine(frame[4])
    /\ IsFvelLine(frame[5])

IsPrefix(s, t) == Len(s) <= Len(t) /\ \A i \in 1..Len(s) : s[i] = t[i]

\* what lies in a sequence after its first n elements
After(seq, n) == IF n >= Len(seq) THEN <<>> ELSE SubSeq(seq, n + 1, Len(seq))

\* the lines this session has written to the store, flushed or not
SessionRows == After(file_rows \o py_buffer, base)

RowsOf(records) == [i \in 1..Len(records) |-> CsvLine(records[i].csv_row)]

FlowsOf(records) == [i \in 1..Len(records) |-> records[i].flow]

TimesOf(records) == [i \in 1..Len(records) |-> records[i].timestamp]

\* C1: no torn reads. Whenever the plot callback has finished a read of the live
\* buffer, the two sequences it took have the same length and every (timestamp,
\* value) pair it holds was produced by one record of the session, under every
\* interleaving with the acquisition thread's two appends
C1_NoTornReads ==
    upc = "idle" =>
        /\ Len(x) = Len(y)
        /\ \A i \in 1..Len(x) :
              \E k \in 1..Len(extracted) :
                  extracted[k].timestamp = x[i] /\ extracted[k].flow = y[i]

\* C2: parse-level errors never abort the session. The acquisition thread never
\* ends because the extraction of a completed frame failed, be it by a missing field
\* or by matched text that cannot be converted
C2_ParseErrorsNeverAbort == ~(pc = "done" /\ raised = ValueError)

\* C3: completeness. For every frame whose conversions succeed, parse_block returns
\* a record if and only if the frame has at least one line of each of the five kinds
C3_Completeness ==
    (pc = "parsed" /\ parsed # ValueError) =>
        ((parsed # None) <=> HasAllKinds(buffer))

\* C4: field correspondence. For a frame of one line of each kind in protocol order
\* the record's velocity is the value of the VEL: line and its filtered velocity the
\* value of the FVEL: line
C4_FieldCorrespondence ==
    (pc = "parsed" /\ ProtocolOrder(buffer) /\ parsed # ValueError) =>
        /\ parsed # None
        /\ parsed.csv_row[7] = FloatOf(LitNumAt(buffer[4], 1, <<"V", "E", "L", ":">>))
        /\ parsed.csv_row[8] = FloatOf(LitNumAt(buffer[5], 1, <<"F", "V", "E", "L", ":">>))

\* C5: order preservation. Within a session the rows written to the store and the
\* pushes to the live buffer are, in order, those of the frames that extracted
\* successfully, without reordering, duplicate or gap: always a prefix of them, and
\* all of them whenever the loop is between two frames
C5_OrderPreserved ==
    Count(opened, "csv") > 0 =>
        /\ IsPrefix(SessionRows, RowsOf(extracted))
        /\ IsPrefix(appended, SessionRows)
        /\ IsPrefix(flow_values, FlowsOf(extracted))
        /\ IsPrefix(time_values, TimesOf(extracted))
        /\ Len(time_values) <= Len(flow_values)
        /\ Len(flow_values) <= Len(appended)
        /\ pc \in {"loop", "readline"} =>
              /\ appended = RowsOf(extracted)
              /\ SessionRows = appended
              /\ flow_values = FlowsOf(extracted)
              /\ time_values = TimesOf(extracted)

\* two different records went through a session, in their order of completion
C5_Witness ==
    /\ pc = "loop"
    /\ Len(extracted) = 2
    /\ extracted[1] # extracted[2]
    /\ SessionRows = RowsOf(extracted)
    /\ Len(time_values) = 2

\* C6: durability of append. After a crash every row whose writerow and flush had
\* returned is in the file
C6_DurableAppend ==
    crashed =>
        \A i \in 1..Len(appended) :
            /\ base + i <= Len(file_rows)
            /\ file_rows[base + i] = appended[i]

\* C7: header written once. Whenever no session has the log file open and the file
\* has lines, its first line is the header and no other line is
C7_HeaderOnce ==
    (~CsvOpen /\ file_rows # <<>>) =>
        /\ file_rows[1] = Header
        /\ Count(file_rows, Header) = 1

\* C8: cooperative stop. Once the stop flag is set while the acquisition loop runs,
\* and every read returns, the thread ends with the serial port closed and then the
\* store closed; the step that observes the flag ends the loop and writes no row,
\* and nothing is written for the session after it has ended
C8_CooperativeStop ==
    /\ (stop_logging /\ Running) ~> (pc = "done" /\ closed = <<"ser", "csv">>)
    /\ [][(pc = "loop" /\ stop_logging /\ pc' # pc) =>
              /\ pc' = "done"
              /\ extracted' = extracted
              /\ appended' = appended
              /\ file_rows' \in {file_rows, file_rows \o <<Header>>}]_vars
    /\ [][(pc = "done" /\ pc' = "done") => file_rows' = file_rows]_vars

\* a session that appended a row and was then stopped
C8_Witness ==
    /\ pc = "done"
    /\ stop_logging
    /\ raised = None
    /\ closed = <<"ser", "csv">>
    /\ Len(appended) >= 1

\* C9: clean abort. However a session ends, no handle is left open and every handle
\* that was opened has been closed exactly once
C9_CleanAbort ==
    pc = "done" =>
        /\ ~SerOpen
        /\ ~CsvOpen
        /\ \A h \in {"ser", "csv"} : Count(closed, h) = Count(opened, h)

\* C10: the outcome is surfaced. When main has joined the reader, what the join gave
\* it tells a session that ended on an error from one that ended through stop
C10_OutcomeSurfaced ==
    mpc = "choice" => ((raised # None) <=> (join_result # None))

\* positions of the commas of a line of the file
Commas(line) == {i \in 1..Len(line) : line[i] = ","}

\* the text of the second cell of a line of the file
SecondCell(line) ==
    SubSeq(line, First(Commas(line)) + 1,
           First({i \in Commas(line) : i > First(Commas(line))}) - 1)

\* C11: attribution. Every row the current session has written, flushed or not,
\* carries in its target_flow column the target given when the session started,
\* whatever the frames held; and no step alters a line already in the file, so the
\* rows of earlier sessions keep the target of the session that appended them
C11_Attribution ==
    /\ [](Count(opened, "csv") > 0 =>
            /\ \A i \in 1..Len(SessionRows) : SecondCell(SessionRows[i]) = FloatText(target)
            /\ \A i \in 1..Len(extracted) : extracted[i].csv_row[2] = target)
    /\ [][IsPrefix(file_rows, file_rows')]_vars

\* two sessions with different targets have each a row in the file
C11_Witness ==
    /\ pc = "done"
    /\ Len(file_rows) = 3
    /\ SecondCell(file_rows[2]) # SecondCell(file_rows[3])
    /\ SecondCell(file_rows[3]) = FloatText(target)
    /\ Len(SessionRows) = 1

\* C12: frame lifetime. Every frame handed to parse_block has had its buffer
\* cleared, whatever the extraction gave (a record, None, or a conversion error)
C12_FrameLifetime == uncleared = 0

\* the greatest element of a non-empty set of positions
Last(hits) == CHOOSE i \in hits : \A k \in hits : i >= k

\* the lines of a frame that each pattern of parse_block matches
TimestampLines(frame) == {i \in 1..Len(frame) : TimestampMatch(frame[i])}

UpDnQLines(frame) == {i \in 1..Len(frame) : UP_DN_Q_RE(frame[i]) # NoUpDnQ}

FlowLines(frame) == {i \in 1..Len(frame) : FLOW_RE(frame[i]) # NoMatch}

VelLines(frame) == {i \in 1..Len(frame) : VEL_RE(frame[i]) # NoMatch}

FvelLines(frame) == {i \in 1..Len(frame) : FVEL_RE(frame[i]) # NoMatch}

\* C13: last match wins. In every record parse_block returns, each field holds the
\* converted value of the last line of the frame that its pattern matches, and up,
\* down and q are the three groups of one and the same line
C13_LastMatchWins ==
    (pc = "parsed" /\ parsed # None /\ parsed # ValueError) =>
        /\ parsed.timestamp = Strptime(buffer[Last(TimestampLines(buffer))])
        /\ parsed.csv_row[1] = Str(Strftime(parsed.timestamp))
        /\ parsed.csv_row[3] = FloatOf(UP_DN_Q_RE(buffer[Last(UpDnQLines(buffer))]).up)
        /\ parsed.csv_row[4] = FloatOf(UP_DN_Q_RE(buffer[Last(UpDnQLines(buffer))]).dn)
        /\ parsed.csv_row[5].val = DigitsVal(UP_DN_Q_RE(buffer[Last(UpDnQLines(buffer))]).q)
        /\ parsed.csv_row[6] = FloatOf(FLOW_RE(buffer[Last(FlowLines(buffer))]))
        /\ parsed.csv_row[7] = FloatOf(VEL_RE(buffer[Last(VelLines(buffer))]))
        /\ parsed.csv_row[8] = FloatOf(FVEL_RE(buffer[Last(FvelLines(buffer))]))
        /\ parsed.flow = parsed.csv_row[6]

\* a record from a frame with two UP/DN/Q lines of different values (and two lines
\* the VEL pattern matches, none of them a VEL: line): it has the later values
C13_Witness ==
    /\ pc = "parsed"
    /\ buffer = <<L_TS, L_UDQ, L_UDQ2, L_FLOW, L_FVEL>>
    /\ parsed # None
    /\ parsed.csv_row[3] = FloatOf(<<"1", ".", "5">>)
    /\ parsed.csv_row[5].val = 7

\* C14: single writer. A session's thread opens the store at most once and never
\* closes what it did not open, the store is closed whenever the thread has ended,
\* and main starts a session only when no acquisition thread is alive: so at every
\* moment at most one thread is alive and at most one store handle is open
C14_SingleWriter ==
    /\ [](/\ Count(opened, "csv") <= 1
          /\ Count(closed, "csv") <= Count(opened, "csv")
          /\ pc \in {"not_started", "done"} => ~CsvOpen)
    /\ [][started' # started => pc \in {"not_started", "done"}]_vars

\* a second session holds the store open on the file the first one wrote
C14_Witness ==
    /\ started = 2
    /\ CsvOpen
    /\ pc = "readline"
    /\ base >= 2

\* the read at 106 returns the device's next line and that line completes a frame
\* from which parse_block makes a record
ReadCompletesRecord ==
    /\ pc = "readline"
    /\ script # <<>>
    /\ script' = Tail(script)
    /\ pc' # "done"
    /\ IsBoundary(Strip(Head(script)))
    /\ parse_block(Append(buffer, Strip(Head(script))), target) \notin {None, ValueError}

\* record i of the session has gone through lines 118-122
Handled(i) ==
    \/ i < Len(extracted)
    \/ pc \in {"loop", "readline"}
    \/ pc = "done" /\ raised = None

\* C15: no validation beyond completeness. Every record parse_block makes of a
\* complete frame is taken on by the loop, whatever its timestamp is compared to
\* that of the record before it, and once the loop has handled it its row is in the
\* store and its flow and timestamp are in the live buffer at its position
C15_NoValidationBeyondCompleteness ==
    /\ [][ReadCompletesRecord =>
            /\ pc' = "writerow"
            /\ extracted' = Append(extracted,
                   parse_block(Append(buffer, Strip(Head(script))), target))]_vars
    /\ [](\A i \in 1..Len(extracted) : Handled(i) =>
            /\ base + i <= Len(file_rows)
            /\ file_rows[base + i] = CsvLine(extracted[i].csv_row)
            /\ i <= Len(flow_values)
            /\ flow_values[i] = extracted[i].flow
            /\ i <= Len(time_values)
            /\ time_values[i] = extracted[i].timestamp)

\* a record with an earlier timestamp than the record before it has been written
\* to the store and pushed to the live buffer
C15_Witness ==
    /\ pc = "loop"
    /\ Len(extracted) = 2
    /\ Earlier(extracted[2].timestamp, extracted[1].timestamp)
    /\ Len(file_rows) = base + 2
    /\ file_rows[base + 2] = CsvLine(extracted[2].csv_row)
    /\ time_values = <<extracted[1].timestamp, extracted[2].timestamp>>
    /\ flow_values = <<extracted[1].flow, extracted[2].flow>>

\* C16: stale stop isolation. A listener that read "stop" before the session started
\* never sets the stop flag of the session
C16_StaleStopIsolation ==
    [][stopper'.stale < stopper.stale => stop_logging' = stop_logging]_vars

\* cell k of a line csv.writer wrote
RECURSIVE Cell(_, _)
Cell(line, k) ==
    IF k = 1 THEN SubSeq(line, 1, First(Commas(line) \cup {Len(line) - 1}) - 1)
    ELSE Cell(SubSeq(line, First(Commas(line)) + 1, Len(line)), k - 1)

\* C17: store and live buffer agreement. At every line-read boundary of a session
\* that opened the store, and when the session has ended, the store holds as many
\* rows of this session as flow_values and time_values have elements, and row i
\* holds the timestamp and the flow of pair i
C17_StoreLiveAgreement ==
    (Count(opened, "csv") > 0 /\ pc \in {"loop", "readline", "done"}) =>
        /\ Len(SessionRows) = Len(flow_values)
        /\ Len(SessionRows) = Len(time_values)
        /\ \A i \in 1..Len(SessionRows) :
              /\ Cell(SessionRows[i], 1) = Strftime(time_values[i])
              /\ Cell(SessionRows[i], 6) = CellText(flow_values[i])

\* the read at 106 returns the device's next line and that line is a boundary line
ReadCompletesFrame ==
    /\ pc = "readline"
    /\ script # <<>>
    /\ script' = Tail(script)
    /\ pc' # "done" \/ raised' = ValueError
    /\ IsBoundary(Strip(Head(script)))

\* C18: frame content. In every frame handed to parse_block the boundary line is
\* the last line and the only one, no line is blank, and no line before the
\* boundary line sets the fvel field
C18_FrameContent ==
    [][ReadCompletesFrame =>
          \A i \in 1..Len(buffer) :
              /\ buffer[i] # <<>>
              /\ ~IsBoundary(buffer[i])
              /\ FVEL_RE(buffer[i]) = NoMatch]_vars
====
